---- MODULE Spec2Model ----
(***************************************************************************)
(* State-machine model of the PDF-to-editable-presentation converter:      *)
(*   - the self-hosted MinerU ingestion client                             *)
(*       (src/utils/self_hosted_mineru.py),                                *)
(*   - the flat converter (src/pdf_to_pptx.py),                            *)
(*   - the recursive-analysis converter                                    *)
(*       (src/experimental/pdf_to_pptx_recur.py).                          *)
(*                                                                         *)
(* Paths are sequences of path components.  A file name as stored in an    *)
(* archive is the sequence obtained by splitting it on "/", so a leading   *)
(* "" component is a leading slash (an absolute name) and a trailing ""    *)
(* component is a trailing slash (a directory entry).                      *)
(***************************************************************************)
EXTENDS Integers, Sequences, FiniteSets, TLC

VARIABLES
    \* ---- ingestion client: parse_pdf_via_self_hosted_mineru ----
    pc,          \* position inside parse_pdf_via_self_hosted_mineru
    pdf_stem,    \* pdf_path.stem
    pdf_exists,  \* pdf_path.exists()
    extract_id,  \* uuid4().hex[:8] of this call ("" before it is drawn)
    response,    \* the HTTP response of requests.post
    fs,          \* the file system: path -> node
    before,      \* step name -> the file system as it was when that step began
    steps,       \* the steps of the call that have run, in order
    err,         \* the exception the call ended with
    ret,         \* the value the call returned
    \* ---- a run's extraction calls ----
    calls,       \* the calls made so far: identifier and result directory
    dirs,        \* the result directories that exist under the upload folder
    \* ---- a conversion run (main of either converter) ----
    rpc,               \* position inside main
    cfg,               \* arguments and environment of the run
    image_paths,       \* the rasterized pages
    mineru_result_dir, \* the extraction result directory the run works on
    clean_bg_paths,    \* the backgrounds generate_clean_backgrounds returned
    requests,          \* extraction requests issued by the run
    inpaint_calls,     \* calls made to the inpainting collaborator
    synthesis,         \* the call of generate_clean_backgrounds and its outcome
    document,          \* what was handed to the document assembler
    runErr,            \* the exception the run ended with
    \* ---- the worker pool of the recursive-analysis converter ----
    submitted,         \* the images handed to make_multi_images_editable
    pending,           \* indices of the images not yet taken by a worker
    running,           \* images a worker is processing
    results,           \* image index -> its result, for the finished ones
    finished,          \* image indices in the order the workers ended
    editable_images,   \* what make_multi_images_editable returned
    \* ---- the template style extractor ----
    spc,               \* position inside extract_styles
    template,          \* the template directory extract_styles is called on
    scan,              \* the loop of extract_styles: next shape, fonts found
    style_config,      \* the StyleConfig extract_styles returned
    color_str,         \* the argument of a call of _parse_color
    color_rgb          \* what that call returned

ingestVars == <<pc, pdf_stem, pdf_exists, extract_id, response, fs, before, steps, err, ret>>

callVars == <<calls, dirs>>

runVars == <<rpc, cfg, image_paths, mineru_result_dir, clean_bg_paths, requests,
             inpaint_calls, synthesis, document, runErr>>

poolVars == <<submitted, pending, running, results, finished, editable_images>>

styleVars == <<spc, template, scan, style_config, color_str, color_rgb>>

\* everything but the ingestion client's state
notIngest == <<callVars, runVars, poolVars, styleVars>>

\* everything but the extraction calls of a run
notCalls == <<ingestVars, runVars, poolVars, styleVars>>

\* everything but the state of a run of the flat converter
notRun == <<ingestVars, callVars, poolVars, styleVars>>

\* everything but the style extractor's state
notStyle == <<ingestVars, callVars, runVars, poolVars>>

vars == <<ingestVars, callVars, runVars, poolVars, styleVars>>

-----------------------------------------------------------------------------
(* Bounds of the model *)

MaxMembers == 3     \* entries per archive
BulkImages == 250   \* size of the family of image files an archive may carry
MaxBodyLen == 10002 \* longest error body the service answers with

(* Program constants *)

SnippetCap == 10000 \* _post_file_parse: len(snippet) > 10_000
ListingCap == 200   \* parse_pdf_via_self_hosted_mineru: entries[:200]

-----------------------------------------------------------------------------
(* Sequences and paths *)

Last(s) == s[Len(s)]

Front(s) == SubSeq(s, 1, Len(s) - 1)

Min(a, b) == IF a <= b THEN a ELSE b

Range(s) == {s[i] : i \in DOMAIN s}

IsPrefix(p, q) == Len(p) <= Len(q) /\ SubSeq(q, 1, Len(p)) = p

IsStrictPrefix(p, q) == Len(p) < Len(q) /\ SubSeq(q, 1, Len(p)) = p

\* the sequences over S without repetition, of length at most n
RECURSIVE InjSeqs(_, _)
InjSeqs(S, n) ==
    IF n = 0 THEN {<<>>}
    ELSE LET shorter == InjSeqs(S, n - 1)
         IN  shorter \cup
             {Append(sx[1], sx[2]) :
                 sx \in {tx \in shorter \X S :
                            Len(tx[1]) = n - 1 /\ tx[2] \notin Range(tx[1])}}

\* the orders in which a finite set can be enumerated
Orders(S) == {s \in InjSeqs(S, Cardinality(S)) : Len(s) = Cardinality(S)}

-----------------------------------------------------------------------------
(* File names the ingestion client tells apart *)

\* zip_path.name: f"{pdf_path.stem}-mineru-{_timestamp()}.zip"
SavedZipName(stem) == IF stem = "doc" THEN "doc-mineru-ts.zip" ELSE "zzz-mineru-ts.zip"

\* preferred.name: f"{pdf_stem}_middle.json"
PreferredName(stem) == IF stem = "doc" THEN "doc_middle.json" ELSE "zzz_middle.json"

\* p.suffix.lower() == ".zip"
HasZipSuffix(name) == name \in {"doc-mineru-ts.zip", "zzz-mineru-ts.zip", "other.zip"}

\* fnmatch(name, "*_middle.json")
MatchesMiddle(name) ==
    name \in {"doc_middle.json", "zzz_middle.json", "alt_middle.json", "more_middle.json"}

\* fnmatch(name, "*_content_list.json")
MatchesContentList(name) == name \in {"doc_content_list.json"}

\* the names in the order sorted() puts them (code point order)
LexOrder ==
    << ".DS_Store", "__MACOSX", "alt_middle.json", "doc-mineru-ts.zip",
       "doc_content_list.json", "doc_middle.json", "etc", "evil", "images",
       "img.png", "layout.json", "meta", "more_middle.json", "other.zip",
       "top", "zzz-mineru-ts.zip", "zzz_middle.json" >>

\* sorted([p.name for p in ...])
SortedNames(S) == SelectSeq(LexOrder, LAMBDA n : n \in S)

-----------------------------------------------------------------------------
(* The file system: a function from the paths that exist to their nodes.   *)
(* A file node carries its bytes (data) and n, the number of sibling files *)
(* it stands for (1, or BulkImages for the family of extracted images).    *)

DirNode == [kind |-> "dir", data |-> <<>>, n |-> 1]

FileNode(data, n) == [kind |-> "file", data |-> data, n |-> n]

Exists(f, p) == p \in DOMAIN f

IsDir(f, p) == p \in DOMAIN f /\ f[p].kind = "dir"

IsFile(f, p) == p \in DOMAIN f /\ f[p].kind = "file"

\* extract_dir.iterdir(): the names directly under dir
ChildNames(f, dir) == {Last(p) : p \in {q \in DOMAIN f : Len(q) = Len(dir) + 1 /\ IsPrefix(dir, q)}}

\* extract_dir.rglob("*"): everything below dir
Below(f, dir) == {q \in DOMAIN f : IsStrictPrefix(dir, q)}

\* f with path p bound to node
Put(f, p, node) == [q \in DOMAIN f \cup {p} |-> IF q = p THEN node ELSE f[q]]

\* os.makedirs(upperdirs): every missing directory between base and p
MakeDirs(f, base, p) ==
    LET missing == {SubSeq(p, 1, k) : k \in (Len(base) + 1)..Len(p)} \ DOMAIN f
    IN  [q \in DOMAIN f \cup missing |-> IF q \in missing THEN DirNode ELSE f[q]]

\* p.rename(target): the node at src and everything below it moves to dst
Rename(f, src, dst) ==
    LET moved == {q \in DOMAIN f : IsPrefix(src, q)}
        to(q) == dst \o SubSeq(q, Len(src) + 1, Len(q))
    IN  [q \in (DOMAIN f \ moved) \cup {to(m) : m \in moved} |->
            IF \E m \in moved : to(m) = q
            THEN f[CHOOSE m \in moved : to(m) = q]
            ELSE f[q]]

\* only.rmdir() inside try/except OSError: removes the directory if it is empty
RmdirBestEffort(f, dir) ==
    IF IsDir(f, dir) /\ Below(f, dir) = {}
    THEN [q \in DOMAIN f \ {dir} |-> f[q]]
    ELSE f

-----------------------------------------------------------------------------
(* Archives: what zf.infolist() yields, in archive order *)

Member(name, n) == [name |-> name, n |-> n]

\* ZipInfo.is_dir(): the stored name ends with a slash
MemberIsDir(m) == Len(m.name) > 0 /\ Last(m.name) = ""

\* the entries the modelled service may put into an archive
MemberPool ==
    { Member(<<"doc_content_list.json">>, 1),
      Member(<<"doc_middle.json">>, 1),
      Member(<<"alt_middle.json">>, 1),
      Member(<<"layout.json">>, 1),
      Member(<<"other.zip">>, 1),
      Member(<<"images", "img.png">>, BulkImages),
      Member(<<"__MACOSX", "meta">>, 1),
      Member(<<"top", "">>, 1),
      Member(<<"top", "doc_content_list.json">>, 1),
      Member(<<"top", "doc_middle.json">>, 1),
      Member(<<"top", "alt_middle.json">>, 1),
      Member(<<"top", "layout.json">>, 1),
      Member(<<"top", "top">>, 1),
      Member(<<"top", "doc-mineru-ts.zip">>, 1),
      Member(<<"top", "..", "more_middle.json">>, 1),
      Member(<<"top", "..", "..", "evil">>, 1),
      Member(<<"", "etc", "evil">>, 1) }

Archives == InjSeqs(MemberPool, MaxMembers)

-----------------------------------------------------------------------------
(* _safe_extractall *)

\* (out_dir_resolved / member.filename).resolve(): an absolute name replaces
\* the base, "" and "." are dropped, ".." goes one level up (never above /)
RECURSIVE ResolveFrom(_, _)
ResolveFrom(base, comps) ==
    IF comps = <<>> THEN base
    ELSE LET c == Head(comps)
         IN  ResolveFrom(
                 IF c \in {"", "."} THEN base
                 ELSE IF c = ".." THEN (IF base = <<>> THEN base ELSE Front(base))
                 ELSE Append(base, c),
                 Tail(comps))

ResolvedDest(out, filename) ==
    IF filename # <<>> /\ Head(filename) = ""
    THEN ResolveFrom(<<>>, filename)
    ELSE ResolveFrom(out, filename)

\* str(dest).startswith(str(out_dir_resolved) + os.sep): with the separator
\* appended, the string prefix test is the test for a strict component prefix
StartsWithSep(dest, out) == IsStrictPrefix(out, dest)

\* the condition under which the loop raises "Unsafe path in zip"
UnsafeMember(out, m) ==
    LET dest == ResolvedDest(out, m.name)
    IN  ~StartsWithSep(dest, out) /\ dest # out

\* ZipFile._extract_member: the name with "", "." and ".." components removed
Sanitize(filename) == SelectSeq(filename, LAMBDA c : c \notin {"", ".", ".."})

\* ZipFile._extract_member: makes the upper directories, then the directory
\* or the file itself
ExtractMember(f, out, m) ==
    LET target == out \o Sanitize(m.name)
    IN  IF MemberIsDir(m)
        THEN MakeDirs(f, out, target)
        ELSE Put(MakeDirs(f, out, Front(target)), target, FileNode(m.name, m.n))

\* ZipFile.extractall: every member, in archive order
RECURSIVE ExtractAll(_, _, _)
ExtractAll(f, out, zf) ==
    IF zf = <<>> THEN f
    ELSE ExtractAll(ExtractMember(f, out, Head(zf)), out, Tail(zf))

NoError == [kind |-> "none", names |-> <<>>, shown |-> 0, truncated |-> FALSE]

Error(kind) == [kind |-> kind, names |-> <<>>, shown |-> 0, truncated |-> FALSE]

\* a variant that checks each member just before extracting it
RECURSIVE SafeExtractAllInterleaved(_, _, _)
SafeExtractAllInterleaved(f, out, zf) ==
    IF zf = <<>> THEN [fs |-> f, err |-> NoError]
    ELSE IF UnsafeMember(out, Head(zf))
         THEN [fs |-> f, err |-> Error("PathTraversalError")]
         ELSE SafeExtractAllInterleaved(ExtractMember(f, out, Head(zf)), out, Tail(zf))

\* _safe_extractall: the loop over zf.infolist() raises on the first unsafe
\* member; zf.extractall runs only after the loop has ended
SafeExtractAll(f, out, zf) ==
    IF \E i \in DOMAIN zf : UnsafeMember(out, zf[i])
    THEN [fs |-> f, err |-> Error("PathTraversalError")]
    ELSE [fs |-> ExtractAll(f, out, zf), err |-> NoError]

-----------------------------------------------------------------------------
(* _flatten_single_top_level_dir *)

IgnoredNames == {"__MACOSX", ".DS_Store"}

\* the loop over extract_dir.iterdir() that fills candidates
FlattenCandidates(f, dir) ==
    {name \in ChildNames(f, dir) :
        /\ name \notin IgnoredNames
        /\ ~(IsFile(f, Append(dir, name)) /\ HasZipSuffix(name))}

\* whether the function gets past both early returns, and then with which
\* directory as `only`
WillFlatten(f, dir) ==
    /\ Cardinality(FlattenCandidates(f, dir)) = 1
    /\ IsDir(f, Append(dir, CHOOSE name \in FlattenCandidates(f, dir) : TRUE))

OnlyDir(f, dir) == Append(dir, CHOOSE name \in FlattenCandidates(f, dir) : TRUE)

\* the orders in which only.iterdir() may yield the entries to move
IterOrders(f, dir) ==
    IF WillFlatten(f, dir) THEN Orders(ChildNames(f, OnlyDir(f, dir))) ELSE {<<>>}

\* a variant that renames over whatever is at the target
RECURSIVE MoveUpOverwriting(_, _, _, _)
MoveUpOverwriting(f, dir, only, order) ==
    IF order = <<>> THEN [fs |-> f, err |-> NoError]
    ELSE MoveUpOverwriting(Rename(f, Append(only, Head(order)), Append(dir, Head(order))),
                           dir, only, Tail(order))

\* the loop over only.iterdir(): raises at the first entry whose target
\* exists, after the entries before it have been renamed
RECURSIVE MoveUp(_, _, _, _)
MoveUp(f, dir, only, order) ==
    IF order = <<>> THEN [fs |-> f, err |-> NoError]
    ELSE LET target == Append(dir, Head(order))
         IN  IF Exists(f, target)
             THEN [fs |-> f,
                   err |-> [Error("FlattenCollisionError") EXCEPT !.names = <<Head(order)>>]]
             ELSE MoveUp(Rename(f, Append(only, Head(order)), target),
                         dir, only, Tail(order))

Flatten(f, dir, order) ==
    IF ~WillFlatten(f, dir) THEN [fs |-> f, err |-> NoError]
    ELSE LET only == OnlyDir(f, dir)
             r == MoveUp(f, dir, only, order)
         IN  IF r.err.kind # "none" THEN r
             ELSE [fs |-> RmdirBestEffort(r.fs, only), err |-> NoError]

-----------------------------------------------------------------------------
(* _ensure_layout_json_from_middle_json *)

LayoutPath(dir) == Append(dir, "layout.json")

\* list(extract_dir.glob("*_middle.json")), as names
MiddleCandidates(f, dir) == {name \in ChildNames(f, dir) : MatchesMiddle(name)}

\* a variant that settles for some candidate when several are there
ChosenGuessing(f, dir, stem) ==
    IF Exists(f, Append(dir, PreferredName(stem)))
    THEN Append(dir, PreferredName(stem))
    ELSE IF MiddleCandidates(f, dir) # {}
         THEN Append(dir, CHOOSE name \in MiddleCandidates(f, dir) : TRUE)
         ELSE <<>>

\* the path the function copies from, or <<>> for `chosen is None`
Chosen(f, dir, stem) ==
    IF Exists(f, Append(dir, PreferredName(stem)))
    THEN Append(dir, PreferredName(stem))
    ELSE IF Cardinality(MiddleCandidates(f, dir)) = 1
         THEN Append(dir, CHOOSE name \in MiddleCandidates(f, dir) : TRUE)
         ELSE <<>>

\* a variant that copies the preferred candidate only
EnsureLayoutPreferredOnly(f, dir, stem) ==
    IF Exists(f, LayoutPath(dir)) \/ ~Exists(f, Append(dir, PreferredName(stem)))
    THEN [fs |-> f, err |-> NoError]
    ELSE [fs |-> Put(f, LayoutPath(dir),
                     FileNode(f[Append(dir, PreferredName(stem))].data, 1)),
          err |-> NoError]

EnsureLayout(f, dir, stem) ==
    IF Exists(f, LayoutPath(dir)) THEN [fs |-> f, err |-> NoError]
    ELSE LET chosen == Chosen(f, dir, stem)
         IN  IF chosen = <<>>
             THEN IF MiddleCandidates(f, dir) = {}
                  THEN [fs |-> f, err |-> NoError]
                  ELSE [fs |-> f,
                        err |-> [Error("ConfigurationError") EXCEPT
                                    !.names = SortedNames(MiddleCandidates(f, dir))]]
             ELSE [fs |-> Put(f, LayoutPath(dir), FileNode(f[chosen].data, f[chosen].n)),
                   err |-> NoError]

-----------------------------------------------------------------------------
(* The tail of parse_pdf_via_self_hosted_mineru: the artifact check *)

\* list(extract_dir.glob("*_content_list.json")), as names
ContentListFiles(f, dir) == {name \in ChildNames(f, dir) : MatchesContentList(name)}

\* len(entries), entries being the sorted listing of extract_dir.rglob("*")
RECURSIVE CountEntries(_, _)
CountEntries(f, paths) ==
    IF paths = {} THEN 0
    ELSE LET p == CHOOSE q \in paths : TRUE
         IN  f[p].n + CountEntries(f, paths \ {p})

\* preview: entries[:200], and the marker appended when len(entries) > 200
Preview(total) == [shown |-> Min(total, ListingCap), truncated |-> total > ListingCap]

\* a variant that looks for the content list anywhere below the directory
ValidateArtifactsRecursive(f, dir) ==
    IF {p \in Below(f, dir) : MatchesContentList(Last(p))} = {}
    THEN LET pv == Preview(CountEntries(f, Below(f, dir)))
         IN  [Error("MissingArtifactError") EXCEPT
                 !.shown = pv.shown, !.truncated = pv.truncated]
    ELSE NoError

ValidateArtifacts(f, dir) ==
    IF ContentListFiles(f, dir) = {}
    THEN LET pv == Preview(CountEntries(f, Below(f, dir)))
         IN  [Error("MissingArtifactError") EXCEPT
                 !.shown = pv.shown, !.truncated = pv.truncated]
    ELSE NoError

-----------------------------------------------------------------------------
(* _post_file_parse *)

\* what the service may answer: a failure status with a body of some length,
\* or a success status with a payload that is an archive or is not
BodyLens == {0, 1, SnippetCap - 1, SnippetCap, SnippetCap + 1, MaxBodyLen}

Responses ==
    {[ok |-> FALSE, bodyLen |-> l, isZip |-> FALSE, zf |-> <<>>] : l \in BodyLens}
    \cup {[ok |-> TRUE, bodyLen |-> 0, isZip |-> FALSE, zf |-> <<>>]}
    \cup {[ok |-> TRUE, bodyLen |-> 0, isZip |-> TRUE, zf |-> z] : z \in Archives}

NoResponse == [ok |-> FALSE, bodyLen |-> 0, isZip |-> FALSE, zf |-> <<>>]

\* a variant that already cuts a body of exactly 10_000 characters
SnippetOffByOne(bodyLen) ==
    [shown |-> Min(bodyLen, SnippetCap - 1), truncated |-> bodyLen >= SnippetCap]

\* snippet: resp.text, cut to its first 10_000 characters plus a marker when longer
Snippet(bodyLen) == [shown |-> Min(bodyLen, SnippetCap), truncated |-> bodyLen > SnippetCap]

PostFileParse(resp) ==
    IF ~resp.ok
    THEN [Error("ServiceError") EXCEPT
             !.shown = Snippet(resp.bodyLen).shown,
             !.truncated = Snippet(resp.bodyLen).truncated]
    ELSE NoError

-----------------------------------------------------------------------------
(* The parts of the system at rest.  Each specification below moves one    *)
(* part and leaves the others as they are here.                            *)

NoReturn == <<>>

NoDocument == [made |-> FALSE, dir |-> <<>>, slides |-> <<>>]

\* generate_clean_backgrounds has not been called
NoSynthesis == [called |-> FALSE, dir |-> <<>>, failed |-> {}]

\* extract_styles has been given no template, has scanned nothing and has
\* returned nothing; _parse_color has returned nothing
NoTemplate == [exists |-> FALSE, import_ok |-> FALSE, inventory_ok |-> FALSE, shapes |-> <<>>]

\* what _parse_color returns: None, or a tuple (r, g, b)
NoColor == [kind |-> "none", r |-> 0, g |-> 0, b |-> 0]

Rgb(r, g, b) == [kind |-> "rgb", r |-> r, g |-> g, b |-> b]

\* title_font_name, title_font_bold, title_font_color (or the body's) while
\* they are None
NoFont == [found |-> FALSE, name |-> "", bold |-> "none", color |-> NoColor]

NoScan == [next |-> 0, title |-> NoFont, body |-> NoFont]

\* FontStyle(name=..., bold=..., color_rgb=...): fallback_name and italic
\* keep the defaults of the dataclass
FontStyle(name, bold, rgb) ==
    [name |-> name, fallback_name |-> "Arial", bold |-> bold, italic |-> FALSE,
     color_rgb |-> rgb]

NoStyleConfig ==
    [source_template |-> "", title_font |-> FontStyle("", FALSE, NoColor),
     body_font |-> FontStyle("", FALSE, NoColor)]

NotParsed == [kind |-> "not parsed", r |-> 0, g |-> 0, b |-> 0]

\* the ingestion client when no call is under way
IdleIngest ==
    /\ pc = "idle"
    /\ pdf_stem = "doc"
    /\ pdf_exists = TRUE
    /\ extract_id = ""
    /\ response = NoResponse
    /\ fs = <<>>
    /\ before = <<>>
    /\ steps = <<>>
    /\ err = NoError
    /\ ret = NoReturn

\* a run that has made no extraction call yet
IdleCalls ==
    /\ calls = <<>>
    /\ dirs = {}

\* the worker pool before any image is submitted
IdlePool ==
    /\ submitted = <<>>
    /\ pending = <<>>
    /\ running = {}
    /\ results = <<>>
    /\ finished = <<>>
    /\ editable_images = <<>>

\* the style extractor before any call
IdleStyle ==
    /\ spc = "idle"
    /\ template = NoTemplate
    /\ scan = NoScan
    /\ style_config = NoStyleConfig
    /\ color_str = <<>>
    /\ color_rgb = NotParsed

\* a run that has not been configured: the value of the run's variables
\* while another part of the system is looked at
IdleRun ==
    /\ rpc = "idle"
    /\ cfg = [entry |-> "none"]
    /\ image_paths = <<>>
    /\ mineru_result_dir = <<>>
    /\ clean_bg_paths = <<>>
    /\ requests = 0
    /\ inpaint_calls = 0
    /\ synthesis = NoSynthesis
    /\ document = NoDocument
    /\ runErr = "none"
    /\ IdlePool

-----------------------------------------------------------------------------
(* parse_pdf_via_self_hosted_mineru, statement by statement *)

PdfStems == {"doc", "zzz"}

\* the values uuid.uuid4().hex[:8] may take
ExtractIds == {"id1", "id2"}

\* the current directory and the home directory of the process, and
\* __file__ of the flat converter
Cwd == <<"work", "repo">>

Home == <<"home", "user">>

ScriptFile == <<"", "work", "repo", "src", "pdf_to_pptx.py">>

\* the place in the file system that the operating system takes a path
\* string for: a relative one starts at the current directory; "~" is a
\* name like any other
Location(p) ==
    IF p # <<>> /\ Head(p) = "" THEN ResolveFrom(<<>>, p) ELSE ResolveFrom(Cwd, p)

\* Path.expanduser(): a leading "~" becomes the home directory
ExpandUser(p) == IF p # <<>> /\ Head(p) = "~" THEN <<"">> \o Home \o Tail(p) ELSE p

\* Path.resolve(): the absolute path of the place
Resolve(p) == <<"">> \o Location(p)

\* Path.parent: the root and "." are their own parents
Parent(p) == IF p = <<>> \/ p = <<"">> THEN p ELSE Front(p)

\* os.getenv('UPLOAD_FOLDER'): <<>> when unset or empty, or an absolute, a
\* relative or a "~"-prefixed path
UploadFolderSettings ==
    {<<>>, <<"", "data", "uploads">>, <<"uploads">>, <<"~", "uploads">>}

\* parse_pdf_with_mineru, lines 98-103: upload_root, the folder handed to
\* parse_pdf_via_self_hosted_mineru
UploadRoot(env) ==
    IF env # <<>> THEN env
    ELSE Append(Parent(Parent(Parent(Resolve(ScriptFile)))), "uploads")

\* main, lines 287-294: the result directory main works out for itself
\* from the identifier (script_dir is Path(__file__).parent)
MainResultDir(env, id) ==
    LET script_dir == Parent(ScriptFile)
        upload_folder == IF env # <<>> THEN env
                         ELSE Append(Parent(Parent(script_dir)), "uploads")
    IN  upload_folder \o <<"mineru_files", id>>

\* upload_folder.expanduser().resolve(), as a place in the file system: of
\* the folder the flat converter hands over, or /uploads for a call made
\* from elsewhere
UploadFolder ==
    IF cfg.entry = "flat" THEN Location(ExpandUser(UploadRoot(cfg.upload_folder)))
    ELSE <<"uploads">>

\* extract_dir = upload_folder / "mineru_files" / extract_id
ExtractDir(id) == UploadFolder \o <<"mineru_files", id>>

ZipPath(id, stem) == Append(ExtractDir(id), SavedZipName(stem))

InitIngest ==
    /\ IdleCalls
    /\ IdleRun
    /\ IdleStyle
    /\ pc = "start"
    /\ pdf_stem \in PdfStems
    /\ pdf_exists \in BOOLEAN
    /\ extract_id = ""
    /\ response = NoResponse
    /\ fs = <<>>
    /\ before = <<>>
    /\ steps = <<>>
    /\ err = NoError
    /\ ret = NoReturn

\* b with the file system f recorded as the state in which step began
Snap(b, step, f) == [k \in DOMAIN b \cup {step} |-> IF k = step THEN f ELSE b[k]]

Fail(e) ==
    /\ pc' = "failed"
    /\ err' = e
    /\ ret' = NoReturn

\* lines 172-181: the PDF must exist; the identifier is drawn and the result
\* directory made (mkdir(parents=True, exist_ok=True))
Begin ==
    /\ pc = "start"
    /\ steps' = Append(steps, "begin")
    /\ before' = Snap(before, "begin", fs)
    /\ IF ~pdf_exists
       THEN /\ Fail(Error("FileNotFoundError"))
            /\ UNCHANGED <<extract_id, fs>>
       ELSE /\ \E id \in ExtractIds :
                /\ extract_id' = id
                /\ fs' = MakeDirs(fs, <<>>, ExtractDir(id))
            /\ pc' = "posting"
            /\ UNCHANGED <<err, ret>>
    /\ UNCHANGED <<pdf_stem, pdf_exists, response>>
    /\ UNCHANGED notIngest

\* lines 204-209: the request; a failure status raises inside _post_file_parse
Post ==
    /\ pc = "posting"
    /\ steps' = Append(steps, "post")
    /\ before' = Snap(before, "post", fs)
    /\ \E resp \in Responses :
        /\ response' = resp
        /\ IF PostFileParse(resp).kind # "none"
           THEN Fail(PostFileParse(resp))
           ELSE /\ pc' = "received"
                /\ UNCHANGED <<err, ret>>
    /\ UNCHANGED <<pdf_stem, pdf_exists, extract_id, fs>>
    /\ UNCHANGED notIngest

\* the bytes of the response, as a file's content
PayloadData(resp) == IF resp.isZip THEN <<"zip">> ELSE <<"not a zip">>

\* a variant that keeps the payload only when it is an archive
SaveZipIfArchive ==
    /\ pc = "received"
    /\ steps' = Append(steps, "save")
    /\ before' = Snap(before, "save", fs)
    /\ fs' = IF response.isZip
             THEN Put(fs, ZipPath(extract_id, pdf_stem), FileNode(PayloadData(response), 1))
             ELSE fs
    /\ pc' = "saved"
    /\ UNCHANGED <<pdf_stem, pdf_exists, extract_id, response, err, ret>>
    /\ UNCHANGED notIngest

\* lines 211-212: zip_path.write_bytes(content)
SaveZip ==
    /\ pc = "received"
    /\ steps' = Append(steps, "save")
    /\ before' = Snap(before, "save", fs)
    /\ fs' = Put(fs, ZipPath(extract_id, pdf_stem), FileNode(PayloadData(response), 1))
    /\ pc' = "saved"
    /\ UNCHANGED <<pdf_stem, pdf_exists, extract_id, response, err, ret>>
    /\ UNCHANGED notIngest

\* lines 214-219: zipfile.is_zipfile(BytesIO(content))
CheckZip ==
    /\ pc = "saved"
    /\ steps' = Append(steps, "check")
    /\ before' = Snap(before, "check", fs)
    /\ IF ~response.isZip
       THEN Fail(Error("MalformedResponseError"))
       ELSE /\ pc' = "checked"
            /\ UNCHANGED <<err, ret>>
    /\ UNCHANGED <<pdf_stem, pdf_exists, extract_id, response, fs>>
    /\ UNCHANGED notIngest

\* lines 221-222: _safe_extractall(zf, extract_dir)
Unpack ==
    /\ pc = "checked"
    /\ steps' = Append(steps, "unpack")
    /\ before' = Snap(before, "unpack", fs)
    /\ LET r == SafeExtractAll(fs, ExtractDir(extract_id), response.zf)
       IN  /\ fs' = r.fs
           /\ IF r.err.kind # "none"
              THEN Fail(r.err)
              ELSE /\ pc' = "unpacked"
                   /\ UNCHANGED <<err, ret>>
    /\ UNCHANGED <<pdf_stem, pdf_exists, extract_id, response>>
    /\ UNCHANGED notIngest

\* line 224: _flatten_single_top_level_dir(extract_dir)
FlattenStep ==
    /\ pc = "unpacked"
    /\ steps' = Append(steps, "flatten")
    /\ before' = Snap(before, "flatten", fs)
    /\ \E order \in IterOrders(fs, ExtractDir(extract_id)) :
        LET r == Flatten(fs, ExtractDir(extract_id), order)
        IN  /\ fs' = r.fs
            /\ IF r.err.kind # "none"
               THEN Fail(r.err)
               ELSE /\ pc' = "flattened"
                    /\ UNCHANGED <<err, ret>>
    /\ UNCHANGED <<pdf_stem, pdf_exists, extract_id, response>>
    /\ UNCHANGED notIngest

\* line 225: _ensure_layout_json_from_middle_json(...)
Backfill ==
    /\ pc = "flattened"
    /\ steps' = Append(steps, "backfill")
    /\ before' = Snap(before, "backfill", fs)
    /\ LET r == EnsureLayout(fs, ExtractDir(extract_id), pdf_stem)
       IN  /\ fs' = r.fs
           /\ IF r.err.kind # "none"
              THEN Fail(r.err)
              ELSE /\ pc' = "backfilled"
                   /\ UNCHANGED <<err, ret>>
    /\ UNCHANGED <<pdf_stem, pdf_exists, extract_id, response>>
    /\ UNCHANGED notIngest

\* lines 227-240: the artifact check and the return
Validate ==
    /\ pc = "backfilled"
    /\ steps' = Append(steps, "validate")
    /\ before' = Snap(before, "validate", fs)
    /\ LET e == ValidateArtifacts(fs, ExtractDir(extract_id))
       IN  IF e.kind # "none"
           THEN Fail(e)
           ELSE /\ pc' = "returned"
                /\ ret' = <<extract_id, ExtractDir(extract_id)>>
                /\ UNCHANGED err
    /\ UNCHANGED <<pdf_stem, pdf_exists, extract_id, response, fs>>
    /\ UNCHANGED notIngest

NextIngest ==
    \/ Begin
    \/ Post
    \/ SaveZip
    \/ CheckZip
    \/ Unpack
    \/ FlattenStep
    \/ Backfill
    \/ Validate

SpecIngest == InitIngest /\ [][NextIngest]_vars

-----------------------------------------------------------------------------
(* A conversion run as a sequence of extraction calls on one upload folder. *)
(* Of each call only the head of parse_pdf_via_self_hosted_mineru is kept: *)
(* the identifier it draws and the directory it makes and then fills.      *)

MaxCalls == 6

InitCalls ==
    /\ IdleIngest
    /\ IdleRun
    /\ IdleStyle
    /\ IdleCalls

\* lines 179-181: extract_id = uuid.uuid4().hex[:8]; the directory is made
\* with exist_ok=True, so a directory that is already there is taken over
ExtractionCall ==
    /\ Len(calls) < MaxCalls
    /\ \E id \in ExtractIds :
        /\ calls' = Append(calls, [id |-> id, dir |-> ExtractDir(id)])
        /\ dirs' = dirs \cup {ExtractDir(id)}
    /\ UNCHANGED notCalls

NextCalls == ExtractionCall

SpecCalls == InitCalls /\ [][NextCalls]_vars

-----------------------------------------------------------------------------
(* A conversion run: what the two entry points have in common *)

MaxPages == 3

\* os.getenv(name): not set, set to the empty string, or set to a value
EnvValues == {"unset", "empty", "set"}

\* bool(value) of what os.getenv returned: None and "" are false
Truthy(v) == v = "set"

\* pdf_to_images: one image per page, page_000.png, page_001.png, ... in
\* the order of the pages
PdfToImages(n) == [i \in 1..n |-> [page |-> i - 1, kind |-> "original"]]

\* the run ends with the exception e: the __main__ block logs it and exits 1
RunFails(e) ==
    /\ rpc' = "failed"
    /\ runErr' = e

-----------------------------------------------------------------------------
(* The flat converter: main of pdf_to_pptx.py *)

\* --mineru-results-dir: not given, or given and naming: nothing, a file, a
\* directory without *_content_list.json, one without layout.json, a full one
ResultsDirArgs == {"none", "missing", "file", "nolist", "nolayout", "complete"}

\* MINERU_API_BASE: the default cloud service, or a host of the internal one
ApiBases == {"https://mineru.net", "http://ai23.labs.hpecorp.net:8023"}

\* is_self_hosted_mineru: "hpecorp" in (mineru_api_base or "").lower()
IsSelfHostedMineru(base) == base = "http://ai23.labs.hpecorp.net:8023"

FlatConfigs ==
    [entry : {"flat"},
     input_exists : BOOLEAN,
     raster_ok : BOOLEAN,
     pages : 1..MaxPages,
     results_dir : ResultsDirArgs,
     api_base : ApiBases,
     upload_folder : UploadFolderSettings,
     token : EnvValues,
     ak : EnvValues,
     sk : EnvValues]

InitFlat ==
    /\ IdleIngest
    /\ IdleCalls
    /\ IdlePool
    /\ IdleStyle
    /\ rpc = "start"
    /\ cfg \in FlatConfigs
    /\ image_paths = <<>>
    /\ mineru_result_dir = <<>>
    /\ clean_bg_paths = <<>>
    /\ requests = 0
    /\ inpaint_calls = 0
    /\ synthesis = NoSynthesis
    /\ document = NoDocument
    /\ runErr = "none"

\* lines 216-219: a missing input file ends the process with status 1
FlatValidateInput ==
    /\ rpc = "start"
    /\ cfg.entry = "flat"
    /\ IF cfg.input_exists
       THEN rpc' = "validated" /\ UNCHANGED runErr
       ELSE rpc' = "exit1" /\ runErr' = "InputNotFound"
    /\ UNCHANGED <<cfg, image_paths, mineru_result_dir, clean_bg_paths, requests,
                   inpaint_calls, synthesis, document>>
    /\ UNCHANGED notRun

\* lines 249-257: step 1, the rasterization
FlatRasterize ==
    /\ rpc = "validated"
    /\ cfg.entry = "flat"
    /\ IF cfg.raster_ok
       THEN /\ image_paths' = PdfToImages(cfg.pages)
            /\ rpc' = "rasterized"
            /\ UNCHANGED runErr
       ELSE /\ RunFails("RasterizationError")
            /\ UNCHANGED image_paths
    /\ UNCHANGED <<cfg, mineru_result_dir, clean_bg_paths, requests, inpaint_calls, synthesis, document>>
    /\ UNCHANGED notRun

\* Path(mineru_results_dir).expanduser().resolve()
GivenResultsDir == <<"", "given_results">>

\* a variant that also refuses a directory without layout.json
FlatReuseResultsNeedsLayout ==
    /\ rpc = "rasterized"
    /\ cfg.entry = "flat"
    /\ cfg.results_dir # "none"
    /\ IF cfg.results_dir \in {"missing", "file"}
       THEN /\ RunFails("ValueError: not a directory")
            /\ UNCHANGED mineru_result_dir
       ELSE IF cfg.results_dir \in {"nolist", "nolayout"}
       THEN /\ RunFails("ValueError: no content list")
            /\ UNCHANGED mineru_result_dir
       ELSE /\ mineru_result_dir' = GivenResultsDir
            /\ rpc' = "parsed"
            /\ UNCHANGED runErr
    /\ UNCHANGED <<cfg, image_paths, clean_bg_paths, requests, inpaint_calls, synthesis, document>>
    /\ UNCHANGED notRun

\* lines 261-277: step 2 with --mineru-results-dir: the directory is checked
\* and no extraction is asked for
FlatReuseResults ==
    /\ rpc = "rasterized"
    /\ cfg.entry = "flat"
    /\ cfg.results_dir # "none"
    /\ IF cfg.results_dir \in {"missing", "file"}
       THEN /\ RunFails("ValueError: not a directory")
            /\ UNCHANGED mineru_result_dir
       ELSE IF cfg.results_dir = "nolist"
       THEN /\ RunFails("ValueError: no content list")
            /\ UNCHANGED mineru_result_dir
       ELSE /\ mineru_result_dir' = GivenResultsDir
            /\ rpc' = "parsed"
            /\ UNCHANGED runErr
    /\ UNCHANGED <<cfg, image_paths, clean_bg_paths, requests, inpaint_calls, synthesis, document>>
    /\ UNCHANGED notRun

\* what parse_pdf_via_self_hosted_mineru may end with
IngestOutcomes ==
    {"returned", "ServiceError", "MalformedResponseError", "PathTraversalError",
     "FlattenCollisionError", "ConfigurationError", "MissingArtifactError"}

\* what FileParserService.parse_file may end with
CloudOutcomes == {"returned", "error", "no extract_id"}

\* a variant that finds the token missing only after asking the service
FlatParseLateTokenCheck ==
    /\ rpc = "rasterized"
    /\ cfg.entry = "flat"
    /\ cfg.results_dir = "none"
    /\ IF IsSelfHostedMineru(cfg.api_base)
       THEN \E out \in IngestOutcomes, id \in ExtractIds :
               /\ requests' = requests + 1
               /\ IF out = "returned"
                  THEN /\ mineru_result_dir' = MainResultDir(cfg.upload_folder, id)
                       /\ rpc' = "parsed"
                       /\ UNCHANGED runErr
                  ELSE /\ RunFails(out)
                       /\ UNCHANGED mineru_result_dir
       ELSE IF ~Truthy(cfg.token)
       THEN /\ requests' = requests + 1
            /\ RunFails("ValueError: MINERU_TOKEN not configured")
            /\ UNCHANGED mineru_result_dir
       ELSE \E out \in CloudOutcomes, id \in ExtractIds :
               /\ requests' = requests + 1
               /\ IF out = "returned"
                  THEN /\ mineru_result_dir' = MainResultDir(cfg.upload_folder, id)
                       /\ rpc' = "parsed"
                       /\ UNCHANGED runErr
                  ELSE /\ RunFails("ValueError: MinerU parsing failed")
                       /\ UNCHANGED mineru_result_dir
    /\ UNCHANGED <<cfg, image_paths, clean_bg_paths, inpaint_calls, synthesis, document>>
    /\ UNCHANGED notRun

\* lines 279-296 and parse_pdf_with_mineru: step 2 without a given
\* directory.  The self-hosted service is asked without a token; the cloud
\* service needs MINERU_TOKEN.
FlatParse ==
    /\ rpc = "rasterized"
    /\ cfg.entry = "flat"
    /\ cfg.results_dir = "none"
    /\ IF IsSelfHostedMineru(cfg.api_base)
       THEN \E out \in IngestOutcomes, id \in ExtractIds :
               /\ requests' = requests + 1
               /\ IF out = "returned"
                  THEN /\ mineru_result_dir' = MainResultDir(cfg.upload_folder, id)
                       /\ rpc' = "parsed"
                       /\ UNCHANGED runErr
                  ELSE /\ RunFails(out)
                       /\ UNCHANGED mineru_result_dir
       ELSE IF ~Truthy(cfg.token)
       THEN /\ RunFails("ValueError: MINERU_TOKEN not configured")
            /\ UNCHANGED <<mineru_result_dir, requests>>
       ELSE \E out \in CloudOutcomes, id \in ExtractIds :
               /\ requests' = requests + 1
               /\ IF out = "returned"
                  THEN /\ mineru_result_dir' = MainResultDir(cfg.upload_folder, id)
                       /\ rpc' = "parsed"
                       /\ UNCHANGED runErr
                  ELSE /\ RunFails("ValueError: MinerU parsing failed")
                       /\ UNCHANGED mineru_result_dir
    /\ UNCHANGED <<cfg, image_paths, clean_bg_paths, inpaint_calls, synthesis, document>>
    /\ UNCHANGED notRun

\* a variant that asks for inpainting as soon as one of the two keys is there
UseInpaintingEitherKey(ak, sk) == Truthy(ak) \/ Truthy(sk)

\* generate_clean_backgrounds, line 154: bool(access_key and secret_key)
UseInpainting(ak, sk) == Truthy(ak) /\ Truthy(sk)

\* InpaintingExportHelper.generate_clean_backgrounds_with_inpainting: one
\* background per page, the page's own image where inpainting failed
InpaintedBackgrounds(paths, ok) ==
    [i \in DOMAIN paths |-> IF ok[i] THEN [page |-> paths[i].page, kind |-> "clean"]
                                     ELSE paths[i]]

\* lines 298-301 and generate_clean_backgrounds: step 3
FlatBackgrounds ==
    /\ rpc = "parsed"
    /\ cfg.entry = "flat"
    /\ IF ~UseInpainting(cfg.ak, cfg.sk)
       THEN /\ clean_bg_paths' = image_paths
            /\ synthesis' = [called |-> TRUE, dir |-> mineru_result_dir, failed |-> {}]
            /\ UNCHANGED inpaint_calls
       ELSE /\ inpaint_calls' = inpaint_calls + 1
            /\ \E ok \in [DOMAIN image_paths -> BOOLEAN] :
                  /\ clean_bg_paths' = InpaintedBackgrounds(image_paths, ok)
                  /\ synthesis' = [called |-> TRUE, dir |-> mineru_result_dir,
                                   failed |-> {i \in DOMAIN image_paths : ~ok[i]}]
    /\ rpc' = "backgrounds"
    /\ UNCHANGED <<cfg, image_paths, mineru_result_dir, requests, document, runErr>>
    /\ UNCHANGED notRun

\* a variant that assembles the document with the page images as backgrounds
FlatCreatePptxOriginals ==
    /\ rpc = "backgrounds"
    /\ cfg.entry = "flat"
    /\ document' = [made |-> TRUE, dir |-> mineru_result_dir, slides |-> image_paths]
    /\ rpc' = "done"
    /\ UNCHANGED <<cfg, image_paths, mineru_result_dir, clean_bg_paths, requests,
                   inpaint_calls, synthesis, runErr>>
    /\ UNCHANGED notRun

\* lines 304-314 and create_editable_pptx: step 4
FlatCreatePptx ==
    /\ rpc = "backgrounds"
    /\ cfg.entry = "flat"
    /\ document' = [made |-> TRUE, dir |-> mineru_result_dir, slides |-> clean_bg_paths]
    /\ rpc' = "done"
    /\ UNCHANGED <<cfg, image_paths, mineru_result_dir, clean_bg_paths, requests,
                   inpaint_calls, synthesis, runErr>>
    /\ UNCHANGED notRun

NextFlat ==
    \/ FlatValidateInput
    \/ FlatRasterize
    \/ FlatReuseResults
    \/ FlatParse
    \/ FlatBackgrounds
    \/ FlatCreatePptx

SpecFlat == InitFlat /\ [][NextFlat]_vars

-----------------------------------------------------------------------------
(* The flat converter together with the ingestion client: step 2 of main   *)
(* is the call of parse_pdf_via_self_hosted_mineru itself, statement by    *)
(* statement, in place of its summary in FlatParse.                        *)

\* runs that go to the self-hosted service: one page, no token, no
\* inpainting keys, no result directory given
PipelineConfigs ==
    {c \in FlatConfigs :
        /\ IsSelfHostedMineru(c.api_base)
        /\ c.results_dir = "none"
        /\ c.pages = 1
        /\ c.token = "unset"
        /\ c.ak = "unset"
        /\ c.sk = "unset"}

InitPipeline ==
    /\ InitFlat
    /\ cfg \in PipelineConfigs

\* main line 280 and parse_pdf_with_mineru lines 97-109: the call is made
FlatParseCall ==
    /\ rpc = "rasterized"
    /\ cfg.entry = "flat"
    /\ cfg.results_dir = "none"
    /\ IsSelfHostedMineru(cfg.api_base)
    /\ pc = "idle"
    /\ rpc' = "parsing"
    /\ pc' = "start"
    /\ UNCHANGED <<cfg, image_paths, mineru_result_dir, clean_bg_paths, requests,
                   inpaint_calls, synthesis, document, runErr>>
    /\ UNCHANGED <<pdf_stem, pdf_exists, extract_id, response, fs, before, steps, err, ret>>
    /\ UNCHANGED <<callVars, poolVars, styleVars>>

\* a variant that goes on with the identifier when the call has raised
FlatParseReturnSwallowing ==
    /\ rpc = "parsing"
    /\ pc \in {"returned", "failed"}
    /\ requests' = requests + (IF "post" \in Range(steps) THEN 1 ELSE 0)
    /\ mineru_result_dir' = MainResultDir(cfg.upload_folder, extract_id)
    /\ rpc' = "parsed"
    /\ UNCHANGED <<cfg, image_paths, clean_bg_paths, inpaint_calls, synthesis, document, runErr>>
    /\ UNCHANGED notRun

\* parse_pdf_with_mineru lines 105-111 and main lines 280-296: the call
\* returns (extract_id, _extract_dir), of which main keeps the identifier and
\* works out the directory anew, or its exception passes through both
FlatParseReturn ==
    /\ rpc = "parsing"
    /\ pc \in {"returned", "failed"}
    /\ requests' = requests + (IF "post" \in Range(steps) THEN 1 ELSE 0)
    /\ IF pc = "returned"
       THEN /\ mineru_result_dir' = MainResultDir(cfg.upload_folder, ret[1])
            /\ rpc' = "parsed"
            /\ UNCHANGED runErr
       ELSE /\ RunFails(err.kind)
            /\ UNCHANGED mineru_result_dir
    /\ UNCHANGED <<cfg, image_paths, clean_bg_paths, inpaint_calls, synthesis, document>>
    /\ UNCHANGED notRun

NextPipeline ==
    \/ FlatValidateInput
    \/ FlatRasterize
    \/ FlatParseCall
    \/ Begin
    \/ Post
    \/ SaveZip
    \/ CheckZip
    \/ Unpack
    \/ FlattenStep
    \/ Backfill
    \/ Validate
    \/ FlatParseReturn
    \/ FlatBackgrounds
    \/ FlatCreatePptx

SpecPipeline == InitPipeline /\ [][NextPipeline]_vars

-----------------------------------------------------------------------------
(* The worker pool of make_multi_images_editable, as the specification     *)
(* describes it: pages are handed to at most max_workers workers, finish   *)
(* in any order, and the results are merged by page index at the join.     *)

MaxWorkers == 2

\* the per-page result: the page's image, and whether a clean background
\* could be made for it
EditableImage(path, clean) == [page |-> path.page, image |-> path, clean |-> clean]

\* the join: one result per submitted image, in the order of the images
MergeByIndex(res, n) == [i \in 1..n |-> res[i]]

-----------------------------------------------------------------------------
(* The recursive-analysis converter: main of pdf_to_pptx_recur.py *)

RecurConfigs ==
    [entry : {"recur"},
     input_exists : BOOLEAN,
     raster_ok : BOOLEAN,
     pages : 1..MaxPages,
     max_workers : 1..MaxWorkers,
     token : EnvValues,
     ak : EnvValues,
     sk : EnvValues]

InitRecur ==
    /\ IdleIngest
    /\ IdleCalls
    /\ IdlePool
    /\ IdleStyle
    /\ rpc = "start"
    /\ cfg \in RecurConfigs
    /\ image_paths = <<>>
    /\ mineru_result_dir = <<>>
    /\ clean_bg_paths = <<>>
    /\ requests = 0
    /\ inpaint_calls = 0
    /\ synthesis = NoSynthesis
    /\ document = NoDocument
    /\ runErr = "none"

\* lines 129-132: a missing input file ends the process with status 1
RecurValidateInput ==
    /\ rpc = "start"
    /\ cfg.entry = "recur"
    /\ IF cfg.input_exists
       THEN rpc' = "validated" /\ UNCHANGED runErr
       ELSE rpc' = "exit1" /\ runErr' = "InputNotFound"
    /\ UNCHANGED <<cfg, image_paths, mineru_result_dir, clean_bg_paths, requests,
                   inpaint_calls, synthesis, document>>
    /\ UNCHANGED <<poolVars, ingestVars, callVars, styleVars>>

\* check_environment, lines 103-106: what it raises, or "none"
CheckEnvironment(c) ==
    IF ~Truthy(c.token) THEN "ValueError: MINERU_TOKEN not configured"
    ELSE IF ~Truthy(c.ak) \/ ~Truthy(c.sk)
         THEN "ValueError: VOLCENGINE credentials not configured"
         ELSE "none"

\* line 135: env_config = check_environment()
RecurCheckEnvironment ==
    /\ rpc = "validated"
    /\ cfg.entry = "recur"
    /\ IF CheckEnvironment(cfg) # "none"
       THEN RunFails(CheckEnvironment(cfg))
       ELSE rpc' = "configured" /\ UNCHANGED runErr
    /\ UNCHANGED <<cfg, image_paths, mineru_result_dir, clean_bg_paths, requests,
                   inpaint_calls, synthesis, document>>
    /\ UNCHANGED <<poolVars, ingestVars, callVars, styleVars>>

\* lines 166-175: step 1, the rasterization
RecurRasterize ==
    /\ rpc = "configured"
    /\ cfg.entry = "recur"
    /\ IF cfg.raster_ok
       THEN /\ image_paths' = PdfToImages(cfg.pages)
            /\ rpc' = "rasterized"
            /\ UNCHANGED runErr
       ELSE /\ RunFails("RasterizationError")
            /\ UNCHANGED image_paths
    /\ UNCHANGED <<cfg, mineru_result_dir, clean_bg_paths, requests, inpaint_calls, synthesis, document>>
    /\ UNCHANGED <<poolVars, ingestVars, callVars, styleVars>>

\* a variant that hands over the images after the first one
RecurSubmitTail ==
    /\ rpc = "rasterized"
    /\ cfg.entry = "recur"
    /\ submitted' = Tail(image_paths)
    /\ pending' = [i \in DOMAIN Tail(image_paths) |-> i]
    /\ rpc' = "processing"
    /\ UNCHANGED <<running, results, finished, editable_images>>
    /\ UNCHANGED <<cfg, image_paths, mineru_result_dir, clean_bg_paths, requests,
                   inpaint_calls, synthesis, document, runErr>>
    /\ UNCHANGED <<ingestVars, callVars, styleVars>>

\* lines 177-195: the service is made and handed every image at once
\* (image_paths=image_paths)
RecurSubmit ==
    /\ rpc = "rasterized"
    /\ cfg.entry = "recur"
    /\ submitted' = image_paths
    /\ pending' = [i \in DOMAIN image_paths |-> i]
    /\ rpc' = "processing"
    /\ UNCHANGED <<running, results, finished, editable_images>>
    /\ UNCHANGED <<cfg, image_paths, mineru_result_dir, clean_bg_paths, requests,
                   inpaint_calls, synthesis, document, runErr>>
    /\ UNCHANGED <<ingestVars, callVars, styleVars>>

\* a free worker takes the next image
PoolStartPage ==
    /\ rpc = "processing"
    /\ pending # <<>>
    /\ Cardinality(running) < cfg.max_workers
    /\ running' = running \cup {Head(pending)}
    /\ pending' = Tail(pending)
    /\ requests' = requests + 1
    /\ UNCHANGED <<submitted, results, finished, editable_images>>
    /\ UNCHANGED <<rpc, cfg, image_paths, mineru_result_dir, clean_bg_paths,
                   inpaint_calls, synthesis, document, runErr>>
    /\ UNCHANGED <<ingestVars, callVars, styleVars>>

\* a worker ends its page, with a clean background or, when inpainting
\* failed for the page, without one
PoolFinishPage ==
    /\ rpc = "processing"
    /\ \E i \in running, clean \in BOOLEAN :
        /\ running' = running \ {i}
        /\ results' = [k \in DOMAIN results \cup {i} |->
                          IF k = i THEN EditableImage(submitted[i], clean)
                          ELSE results[k]]
        /\ finished' = Append(finished, i)
    /\ inpaint_calls' = inpaint_calls + 1
    /\ UNCHANGED <<submitted, pending, editable_images>>
    /\ UNCHANGED <<rpc, cfg, image_paths, mineru_result_dir, clean_bg_paths,
                   requests, synthesis, document, runErr>>
    /\ UNCHANGED <<ingestVars, callVars, styleVars>>

\* the top-level extraction of a page fails: the failure is fatal for the run
PoolPageFails ==
    /\ rpc = "processing"
    /\ \E i \in running :
        /\ running' = running \ {i}
        /\ finished' = Append(finished, i)
    /\ RunFails("PageExtractionError")
    /\ UNCHANGED <<submitted, pending, results, editable_images>>
    /\ UNCHANGED <<cfg, image_paths, mineru_result_dir, clean_bg_paths, requests,
                   inpaint_calls, synthesis, document>>
    /\ UNCHANGED <<ingestVars, callVars, styleVars>>

\* the join: make_multi_images_editable returns, line 191
PoolJoin ==
    /\ rpc = "processing"
    /\ pending = <<>>
    /\ running = {}
    /\ editable_images' = MergeByIndex(results, Len(submitted))
    /\ rpc' = "processed"
    /\ UNCHANGED <<submitted, pending, running, results, finished>>
    /\ UNCHANGED <<cfg, image_paths, mineru_result_dir, clean_bg_paths, requests,
                   inpaint_calls, synthesis, document, runErr>>
    /\ UNCHANGED <<ingestVars, callVars, styleVars>>

\* lines 205-213: step 4, the list goes to the assembler as it was returned
RecurCreatePptx ==
    /\ rpc = "processed"
    /\ cfg.entry = "recur"
    /\ document' = [made |-> TRUE, dir |-> <<>>, slides |-> editable_images]
    /\ rpc' = "done"
    /\ UNCHANGED poolVars
    /\ UNCHANGED <<cfg, image_paths, mineru_result_dir, clean_bg_paths, requests,
                   inpaint_calls, synthesis, runErr>>
    /\ UNCHANGED <<ingestVars, callVars, styleVars>>

NextRecur ==
    \/ RecurValidateInput
    \/ RecurCheckEnvironment
    \/ RecurRasterize
    \/ RecurSubmit
    \/ PoolStartPage
    \/ PoolFinishPage
    \/ PoolPageFails
    \/ PoolJoin
    \/ RecurCreatePptx

SpecRecur == InitRecur /\ [][NextRecur]_vars

-----------------------------------------------------------------------------
(* TemplateStyleExtractor._parse_color.  A string is the sequence of its    *)
(* characters.                                                             *)

MaxColorLen == 7

\* the characters the modelled strings are made of: hex digits of both
\* cases, the hash sign, the minus sign, a letter that is no hex digit
ColorChars == {"0", "A", "f", "#", "-", "g"}

HexDigits == {"0", "A", "f"}

HexValue(c) == IF c = "0" THEN 0 ELSE IF c = "A" THEN 10 ELSE 15

\* the value None, and a value that is not None and not a str (a number,
\* a color object), as arguments of _parse_color
NoneStr == <<"None">>

NonStr == <<"not a str">>

\* the sequences over S of length at most n
SeqsUpTo(S, n) == UNION {[1..k -> S] : k \in 0..n}

ColorStrings == SeqsUpTo(ColorChars, MaxColorLen) \cup {NoneStr}

\* color_str.lstrip('#')
RECURSIVE LStripHash(_)
LStripHash(s) == IF s # <<>> /\ Head(s) = "#" THEN LStripHash(Tail(s)) ELSE s

\* int(two, 16) for a string of two characters: two hex digits, or a sign
\* and one hex digit; anything else is a ValueError
IntBase16(two) ==
    IF two[1] \in HexDigits /\ two[2] \in HexDigits
    THEN [ok |-> TRUE, val |-> 16 * HexValue(two[1]) + HexValue(two[2])]
    ELSE IF two[1] = "-" /\ two[2] \in HexDigits
    THEN [ok |-> TRUE, val |-> 0 - HexValue(two[2])]
    ELSE [ok |-> FALSE, val |-> 0]

\* the call ends with an exception that its except clause does not name
ColorRaises == [kind |-> "raise", r |-> 0, g |-> 0, b |-> 0]

\* _parse_color, lines 182-198
ParseColor(s) ==
    IF s = NoneStr \/ s = <<>> THEN NoColor
    ELSE IF s = NonStr THEN ColorRaises
    ELSE LET t == LStripHash(s)
         IN  IF Len(t) = 6
             THEN LET r == IntBase16(SubSeq(t, 1, 2))
                      g == IntBase16(SubSeq(t, 3, 4))
                      b == IntBase16(SubSeq(t, 5, 6))
                  IN  IF r.ok /\ g.ok /\ b.ok THEN Rgb(r.val, g.val, b.val) ELSE NoColor
             ELSE NoColor

InitColor ==
    /\ IdleIngest
    /\ IdleCalls
    /\ IdleRun
    /\ spc = "color"
    /\ template = NoTemplate
    /\ scan = NoScan
    /\ style_config = NoStyleConfig
    /\ color_str \in ColorStrings
    /\ color_rgb = NotParsed

\* one call of _parse_color
ParseColorCall ==
    /\ spc = "color"
    /\ color_rgb' = ParseColor(color_str)
    /\ spc' = "color parsed"
    /\ UNCHANGED <<template, scan, style_config, color_str>>
    /\ UNCHANGED notStyle

NextColor == ParseColorCall

SpecColor == InitColor /\ [][NextColor]_vars

-----------------------------------------------------------------------------
(* TemplateStyleExtractor.extract_styles *)

MaxShapes == 3

\* paragraphs[0] of a shape: font_name ("" for None or empty), bold ("none"
\* for None) and color as the inventory has them
Paragraph(font_name, bold, color) == [font_name |-> font_name, bold |-> bold, color |-> color]

Shape(ptype, paragraphs) == [placeholder_type |-> ptype, paragraphs |-> paragraphs]

\* the shapes a modelled template is made of
ShapePool ==
    { Shape("TITLE", <<Paragraph("Graphik", "true", <<"f", "f", "0", "0", "0", "0">>)>>),
      Shape("TITLE", <<Paragraph("Courier", "false", NoneStr)>>),
      Shape("CENTER_TITLE", <<Paragraph("Courier", "none", <<"#", "0", "0", "f", "f", "0", "0">>)>>),
      Shape("TITLE", <<>>),
      Shape("TITLE", <<Paragraph("", "none", NoneStr), Paragraph("Georgia", "true", NoneStr)>>),
      Shape("TITLE", <<Paragraph("", "true", <<"f", "f", "0", "0", "0", "0">>)>>),
      Shape("BODY", <<Paragraph("Graphik", "none", NoneStr)>>),
      Shape("BODY", <<Paragraph("Courier", "true", <<"0", "0", "0", "0", "f", "f">>)>>),
      Shape("SUBTITLE", <<Paragraph("Georgia", "false", <<"g", "g">>)>>),
      Shape("FOOTER", <<Paragraph("Courier", "false", <<>>)>>),
      Shape("BODY", <<Paragraph("", "false", NoneStr)>>),
      Shape("OBJECT", <<Paragraph("Georgia", "true", <<"f", "f", "0", "0", "0", "0">>)>>),
      Shape("SLIDE_NUMBER", <<Paragraph("Georgia", "false", NoneStr)>>),
      Shape("OBJECT", <<Paragraph("Georgia", "none", NonStr)>>) }

\* the template directories extract_styles is called on: one whose
\* content-slide template cannot be examined (Path.exists re-raises an
\* OSError other than "no such file", as for a name that is too long or a
\* directory that may not be searched); without the template; with it but
\* the inventory module cannot be imported; with it but
\* extract_text_inventory raises; with a template of up to MaxShapes shapes,
\* in the order the inventory yields them
Templates ==
    {[stat_ok |-> FALSE, exists |-> FALSE, import_ok |-> TRUE, inventory_ok |-> TRUE,
      shapes |-> <<>>],
     [stat_ok |-> TRUE, exists |-> FALSE, import_ok |-> TRUE, inventory_ok |-> TRUE,
      shapes |-> <<>>],
     [stat_ok |-> TRUE, exists |-> TRUE, import_ok |-> FALSE, inventory_ok |-> TRUE,
      shapes |-> <<>>],
     [stat_ok |-> TRUE, exists |-> TRUE, import_ok |-> TRUE, inventory_ok |-> FALSE,
      shapes |-> <<>>]}
    \cup {[stat_ok |-> TRUE, exists |-> TRUE, import_ok |-> TRUE, inventory_ok |-> TRUE,
           shapes |-> sh] : sh \in SeqsUpTo(ShapePool, MaxShapes)}

\* get_hpe_default_style
GetHpeDefaultStyle ==
    [source_template |-> "HPE defaults",
     title_font |-> [name |-> "HPE Graphik Semibold", fallback_name |-> "Arial",
                     bold |-> TRUE, italic |-> FALSE, color_rgb |-> NoColor],
     body_font |-> [name |-> "HPE Graphik", fallback_name |-> "Arial",
                    bold |-> FALSE, italic |-> FALSE, color_rgb |-> NoColor]]

InitStyle ==
    /\ IdleIngest
    /\ IdleCalls
    /\ IdleRun
    /\ spc = "start"
    /\ template \in Templates
    /\ scan = NoScan
    /\ style_config = NoStyleConfig
    /\ color_str = <<>>
    /\ color_rgb = NotParsed

\* return self.get_hpe_default_style()
ReturnDefaults ==
    /\ style_config' = GetHpeDefaultStyle
    /\ spc' = "returned"

\* lines 72-95: the template must exist, which is looked at before the try
\* block is entered; inside the try block the inventory module is imported
\* and the inventory is taken
ExtractBegin ==
    /\ spc = "start"
    /\ IF ~template.stat_ok
       THEN /\ spc' = "raised"
            /\ UNCHANGED <<scan, style_config>>
       ELSE IF ~template.exists \/ ~template.import_ok \/ ~template.inventory_ok
       THEN /\ ReturnDefaults
            /\ UNCHANGED scan
       ELSE /\ scan' = [next |-> 1, title |-> NoFont, body |-> NoFont]
            /\ spc' = "scanning"
            /\ UNCHANGED style_config
    /\ UNCHANGED <<template, color_str, color_rgb>>
    /\ UNCHANGED notStyle

\* the fonts found so far, after a shape of the given type with the given
\* first paragraph and parsed color (lines 116-128)
TakeFirstMatch(sc, ptype, para, color) ==
    LET font == [found |-> TRUE, name |-> para.font_name, bold |-> para.bold, color |-> color]
    IN  IF ptype \in {"TITLE", "CENTER_TITLE"}
        THEN IF ~sc.title.found THEN [sc EXCEPT !.title = font] ELSE sc
        ELSE IF ptype \in {"BODY", "SUBTITLE", "FOOTER"}
        THEN IF ~sc.body.found THEN [sc EXCEPT !.body = font] ELSE sc
        ELSE sc

\* a variant in which a later match replaces an earlier one
ScanShapeLastWins ==
    /\ spc = "scanning"
    /\ scan.next <= Len(template.shapes)
    /\ LET shape == template.shapes[scan.next]
           on == [scan EXCEPT !.next = scan.next + 1]
       IN  IF shape.paragraphs = <<>>
           THEN scan' = on /\ UNCHANGED <<spc, style_config>>
           ELSE LET para == shape.paragraphs[1]
                    color == ParseColor(para.color)
                IN  IF color.kind = "raise"
                    THEN ReturnDefaults /\ UNCHANGED scan
                    ELSE IF para.font_name = ""
                    THEN scan' = on /\ UNCHANGED <<spc, style_config>>
                    ELSE /\ scan' = TakeFirstMatch([on EXCEPT !.title = NoFont, !.body = NoFont],
                                                   shape.placeholder_type, para, color)
                         /\ UNCHANGED <<spc, style_config>>
    /\ UNCHANGED <<template, color_str, color_rgb>>
    /\ UNCHANGED notStyle

\* lines 98-128: one pass of the loop over the shapes of the inventory; an
\* exception raised in it is caught at line 168
ScanShape ==
    /\ spc = "scanning"
    /\ scan.next <= Len(template.shapes)
    /\ LET shape == template.shapes[scan.next]
           on == [scan EXCEPT !.next = scan.next + 1]
       IN  IF shape.paragraphs = <<>>
           THEN scan' = on /\ UNCHANGED <<spc, style_config>>
           ELSE LET para == shape.paragraphs[1]
                    color == ParseColor(para.color)
                IN  IF color.kind = "raise"
                    THEN ReturnDefaults /\ UNCHANGED scan
                    ELSE IF para.font_name = ""
                    THEN scan' = on /\ UNCHANGED <<spc, style_config>>
                    ELSE /\ scan' = TakeFirstMatch(on, shape.placeholder_type, para, color)
                         /\ UNCHANGED <<spc, style_config>>
    /\ UNCHANGED <<template, color_str, color_rgb>>
    /\ UNCHANGED notStyle

\* lines 130-163: the StyleConfig is built from what the loop found
BuildConfig ==
    /\ spc = "scanning"
    /\ scan.next > Len(template.shapes)
    /\ style_config' =
          [source_template |-> "template_path",
           title_font |-> IF scan.title.found
                          THEN FontStyle(scan.title.name,
                                         IF scan.title.bold = "none" THEN TRUE
                                         ELSE scan.title.bold = "true",
                                         scan.title.color)
                          ELSE FontStyle("HPE Graphik Semibold", TRUE, NoColor),
           body_font |-> IF scan.body.found
                         THEN FontStyle(scan.body.name,
                                        IF scan.body.bold = "none" THEN FALSE
                                        ELSE scan.body.bold = "true",
                                        scan.body.color)
                         ELSE FontStyle("HPE Graphik", FALSE, NoColor)]
    /\ spc' = "returned"
    /\ UNCHANGED <<template, scan, color_str, color_rgb>>
    /\ UNCHANGED notStyle

NextStyle ==
    \/ ExtractBegin
    \/ ScanShape
    \/ BuildConfig

SpecStyle == InitStyle /\ [][NextStyle]_vars

-----------------------------------------------------------------------------
(* Both converters: a run is a run of one or of the other *)

InitRuns == InitFlat \/ InitRecur

NextRuns == NextFlat \/ NextRecur

SpecRuns == InitRuns /\ [][NextRuns]_vars

-----------------------------------------------------------------------------
(* Properties of the ingestion client *)

\* the step the call executed last
LastStep == IF steps = <<>> THEN "" ELSE Last(steps)

Dir == ExtractDir(extract_id)

\* a destination that is neither the target directory nor below it
Outside(out, p) == ~IsPrefix(out, p)

\* the paths that exist in g but not in f, or exist in both with another node
Written(f, g) == {p \in DOMAIN g : p \notin DOMAIN f \/ f[p] # g[p]}

\* C1: safe unpack is all-or-nothing.  If the resolved destination of any
\* entry of the archive lies outside the target directory, the unpack ends
\* with a PathTraversalError and has written nothing at all; otherwise every
\* entry has been written, each at a path inside the target directory, and
\* nothing has been written anywhere else.
C1_SafeUnpackAllOrNothing ==
    LastStep = "unpack" =>
        LET zf == response.zf
            old == before["unpack"]
        IN  IF \E i \in DOMAIN zf : Outside(Dir, ResolvedDest(Dir, zf[i].name))
            THEN /\ pc = "failed"
                 /\ err.kind = "PathTraversalError"
                 /\ fs = old
            ELSE /\ pc = "unpacked"
                 /\ \A i \in DOMAIN zf :
                        \E p \in Written(old, fs) :
                            /\ IsStrictPrefix(Dir, p)
                            /\ IF MemberIsDir(zf[i])
                               THEN fs[p].kind = "dir"
                               ELSE fs[p] = FileNode(zf[i].name, zf[i].n)
                 /\ \A p \in Written(old, fs) : IsStrictPrefix(Dir, p)

\* C1 witness: an archive whose first entry is safe and whose second entry
\* escapes the target directory has been refused
C1_Witness ==
    /\ LastStep = "unpack"
    /\ pc = "failed"
    /\ Len(response.zf) >= 2
    /\ ~Outside(Dir, ResolvedDest(Dir, response.zf[1].name))
    /\ Outside(Dir, ResolvedDest(Dir, response.zf[2].name))


\* the *_middle.json files directly under dir in file system f
MiddleFiles(f, dir) ==
    {p \in DOMAIN f : Len(p) = Len(dir) + 1 /\ IsPrefix(dir, p) /\ MatchesMiddle(Last(p))}

\* C3: after normalization (hoisting, then layout backfill) has run to its
\* end, a directory that had no layout.json and exactly one *_middle.json
\* directly under it beforehand (before the backfill, and likewise before
\* the hoisting) has a layout.json file whose content is that candidate's
\* content; a layout.json that existed before the backfill is as it was.
C3_BackfillUniqueCandidate ==
    (LastStep = "backfill" /\ pc = "backfilled") =>
        /\ \A old \in {before["backfill"], before["flatten"]} :
              (/\ ~Exists(old, LayoutPath(Dir))
               /\ Cardinality(MiddleFiles(old, Dir)) = 1)
              => /\ IsFile(fs, LayoutPath(Dir))
                 /\ \A c \in MiddleFiles(old, Dir) : fs[LayoutPath(Dir)].data = old[c].data
        /\ Exists(before["backfill"], LayoutPath(Dir))
              => fs[LayoutPath(Dir)] = before["backfill"][LayoutPath(Dir)]

\* C3 witness: a sole candidate that is not the preferred one has been copied
C3_Witness ==
    /\ LastStep = "backfill"
    /\ pc = "backfilled"
    /\ ~Exists(before["backfill"], LayoutPath(Dir))
    /\ MiddleFiles(before["backfill"], Dir) = {Append(Dir, "alt_middle.json")}
    /\ pdf_stem = "doc"
    /\ IsFile(fs, LayoutPath(Dir))

\* C4: layout backfill on a directory with no layout.json and two or more
\* *_middle.json candidates.  If none is <pdf_stem>_middle.json, the call
\* fails with a ConfigurationError naming every candidate and the directory
\* is as it was (no layout.json); if <pdf_stem>_middle.json is among them,
\* it is the one copied into layout.json and no error is raised.
C4_BackfillAmbiguous ==
    LastStep = "backfill" =>
        LET old == before["backfill"]
            cands == MiddleFiles(old, Dir)
            preferred == Append(Dir, PreferredName(pdf_stem))
        IN  (~Exists(old, LayoutPath(Dir)) /\ Cardinality(cands) >= 2) =>
                IF preferred \in cands
                THEN /\ pc = "backfilled"
                     /\ err.kind = "none"
                     /\ IsFile(fs, LayoutPath(Dir))
                     /\ fs[LayoutPath(Dir)].data = old[preferred].data
                ELSE /\ pc = "failed"
                     /\ err.kind = "ConfigurationError"
                     /\ Range(err.names) = {Last(c) : c \in cands}
                     /\ Len(err.names) = Cardinality(cands)
                     /\ fs = old
                     /\ ~Exists(fs, LayoutPath(Dir))

\* C4 witness: two candidates, neither of them preferred, have been refused
C4_Witness ==
    /\ LastStep = "backfill"
    /\ pc = "failed"
    /\ pdf_stem = "zzz"
    /\ Cardinality(MiddleFiles(before["backfill"], Dir)) = 2

\* the *_content_list.json files directly under dir in file system f
ContentListsIn(f, dir) ==
    {p \in DOMAIN f : Len(p) = Len(dir) + 1 /\ IsPrefix(dir, p) /\ MatchesContentList(Last(p))}

\* C5: a call that returns, returns a directory with a *_content_list.json
\* directly under it; a call that reaches the artifact check without one
\* fails with a MissingArtifactError whose listing shows at most 200 entries
\* (all of them when there are no more than 200, with the truncation marker
\* exactly when there are more), and returns nothing.
C5_ContentListPostcondition ==
    /\ pc = "returned" =>
          /\ ret = <<extract_id, Dir>>
          /\ ContentListsIn(fs, ret[2]) # {}
    /\ (LastStep = "validate" /\ ContentListsIn(before["validate"], Dir) = {}) =>
          /\ pc = "failed"
          /\ err.kind = "MissingArtifactError"
          /\ ret = NoReturn
          /\ err.shown <= 200
          /\ LET total == CountEntries(fs, Below(fs, Dir))
             IN  /\ total <= 200 => (err.shown = total /\ ~err.truncated)
                 /\ total > 200 => (err.shown = 200 /\ err.truncated)

\* C5 witness: the check has failed on a directory of more than 200 entries
C5_Witness ==
    /\ LastStep = "validate"
    /\ pc = "failed"
    /\ err.kind = "MissingArtifactError"
    /\ err.truncated

\* C7: a success response whose payload is not an archive ends the call with
\* a MalformedResponseError; the payload has been written to the response
\* file of the result directory before the validity check, and neither the
\* unpack nor the hoisting nor the backfill has run.
C7_MalformedPayloadPersisted ==
    /\ (LastStep = "check" /\ response.ok /\ ~response.isZip) =>
          /\ pc = "failed"
          /\ err.kind = "MalformedResponseError"
          /\ ret = NoReturn
          /\ steps = <<"begin", "post", "save", "check">>
          /\ IsFile(fs, ZipPath(extract_id, pdf_stem))
          /\ fs[ZipPath(extract_id, pdf_stem)].data = <<"not a zip">>
          /\ Written(before["save"], fs) = {ZipPath(extract_id, pdf_stem)}
    /\ (response.ok /\ ~response.isZip) =>
          Range(steps) \cap {"unpack", "flatten", "backfill", "validate"} = {}

\* C7 witness: the call has failed on a payload that is not an archive
C7_Witness ==
    /\ pc = "failed"
    /\ err.kind = "MalformedResponseError"
    /\ IsFile(fs, ZipPath(extract_id, pdf_stem))

\* C8: a failure status ends the call with a ServiceError that carries the
\* body whole when it has at most 10,000 characters, and its first 10,000
\* characters plus the truncation marker when it is longer; no payload file
\* has been written and no later step has run.
C8_ServiceErrorTruncatedBody ==
    (LastStep = "post" /\ ~response.ok) =>
        /\ pc = "failed"
        /\ err.kind = "ServiceError"
        /\ ret = NoReturn
        /\ response.bodyLen <= 10000 => (err.shown = response.bodyLen /\ ~err.truncated)
        /\ response.bodyLen > 10000 => (err.shown = 10000 /\ err.truncated)
        /\ steps = <<"begin", "post">>
        /\ fs = before["post"]
        /\ ~Exists(fs, ZipPath(extract_id, pdf_stem))

\* C8 witness: a failure answer with a body of exactly 10,000 characters
C8_Witness ==
    /\ pc = "failed"
    /\ err.kind = "ServiceError"
    /\ response.bodyLen = 10000


\* what hoisting is required to do on file system old, given the names
\* `content` that count as the unpacked content of the result directory:
\*  (a) content is one directory and none of its entries' names is taken
\*      under the result directory: every entry, with all below it, is now
\*      directly under the result directory and the directory is gone;
\*  (b) content is not one directory: nothing has changed;
\*  (c) content is one directory and an entry's name is taken: the call has
\*      failed and everything outside that directory is as it was.
HoistingDone(old, content) ==
    LET single == Cardinality(content) = 1 /\ \A n \in content : IsDir(old, Append(Dir, n))
        only == Append(Dir, CHOOSE n \in content : TRUE)
        taken == \E n \in ChildNames(old, only) : Exists(old, Append(Dir, n))
    IN  /\ (single /\ ~taken) =>
              /\ pc = "flattened"
              /\ ~Exists(fs, only)
              /\ \A p \in Below(old, only) :
                    LET q == Dir \o SubSeq(p, Len(only) + 1, Len(p))
                    IN  Exists(fs, q) /\ fs[q] = old[p]
        /\ ~single => (pc = "flattened" /\ fs = old)
        /\ (single /\ taken) =>
              /\ pc = "failed"
              /\ err.kind = "FlattenCollisionError"
              /\ \A p \in DOMAIN old : ~IsPrefix(only, p) => (Exists(fs, p) /\ fs[p] = old[p])

\* C9: hoisting, with the unpacked content of the result directory being
\* its entries other than the saved response archive and the archive
\* metadata entries (__MACOSX, .DS_Store): exactly one top-level directory is
\* emptied into the result directory and removed; anything else is left
\* unchanged; a name collision fails without overwriting.
C9_HoistingAsClaimed ==
    LastStep = "flatten" =>
        LET old == before["flatten"]
        IN  HoistingDone(old, {n \in ChildNames(old, Dir) :
                                  /\ n # SavedZipName(pdf_stem)
                                  /\ n \notin {"__MACOSX", ".DS_Store"}})

\* C9, with the unpacked content being what the code takes it to be: the
\* entries other than files with a .zip suffix (the saved response archive
\* or any other) and the archive metadata entries.
C9_HoistingIgnoringEveryZip ==
    LastStep = "flatten" =>
        LET old == before["flatten"]
        IN  HoistingDone(old, {n \in ChildNames(old, Dir) :
                                  /\ ~(IsFile(old, Append(Dir, n)) /\ HasZipSuffix(n))
                                  /\ n \notin {"__MACOSX", ".DS_Store"}})


\* the files below dir in file system f
FilesBelow(f, dir) == {p \in Below(f, dir) : f[p].kind = "file"}

\* the path one level up from p, a path at least two levels below Dir
OneLevelUp(p) == Dir \o SubSeq(p, Len(Dir) + 2, Len(p))

\* the top-level entries of the result directory in old at or below which
\* something is different in fs
TouchedEntries(old) ==
    {t \in ChildNames(old, Dir) :
        \E p \in DOMAIN old : /\ IsPrefix(Append(Dir, t), p)
                              /\ (p \notin DOMAIN fs \/ fs[p] # old[p])}

\* C20: whether the hoisting succeeds or fails with a name collision,
\*  - every file that was below the result directory is there afterwards
\*    with its content, at its old path or one level up and not at both, and
\*    no file has come into being;
\*  - at most one top-level entry has been touched, it is a directory, and
\*    it is neither the saved response archive nor an archive metadata
\*    entry; everything outside the result directory is as it was;
\*  - a top-level directory that is gone was emptied: all it held is now one
\*    level up.
C20_HoistingKeepsContent ==
    LastStep = "flatten" =>
        LET old == before["flatten"]
        IN  /\ \A p \in FilesBelow(old, Dir) :
                  LET places == {q \in {p} \cup (IF Len(p) >= Len(Dir) + 2
                                                 THEN {OneLevelUp(p)} ELSE {}) :
                                    IsFile(fs, q) /\ fs[q] = old[p]}
                  IN  Cardinality(places) = 1
            /\ Cardinality(FilesBelow(fs, Dir)) = Cardinality(FilesBelow(old, Dir))
            /\ Cardinality(TouchedEntries(old)) <= 1
            /\ \A t \in TouchedEntries(old) :
                  /\ IsDir(old, Append(Dir, t))
                  /\ t \notin {SavedZipName(pdf_stem), "__MACOSX", ".DS_Store"}
            /\ \A p \in DOMAIN old : ~IsPrefix(Dir, p) => (Exists(fs, p) /\ fs[p] = old[p])
            /\ \A p \in DOMAIN fs : ~IsPrefix(Dir, p) => Exists(old, p)
            /\ \A t \in ChildNames(old, Dir) :
                  (IsDir(old, Append(Dir, t)) /\ ~Exists(fs, Append(Dir, t))) =>
                      \A p \in Below(old, Append(Dir, t)) :
                          Exists(fs, OneLevelUp(p)) /\ fs[OneLevelUp(p)] = old[p]

\* C20 witness: the hoisting has failed on a name collision after it had
\* moved an entry up
C20_Witness ==
    /\ LastStep = "flatten"
    /\ pc = "failed"
    /\ err.kind = "FlattenCollisionError"
    /\ fs # before["flatten"]

-----------------------------------------------------------------------------
(* Properties of a run's extraction calls *)

\* C6: each extraction call of a run gets an identifier different from the
\* identifier of every earlier call of the run, its result directory is
\* <upload folder>/mineru_files/<identifier>, and no two calls of the run
\* have the same result directory.
C6_ExtractionIdsUnique ==
    /\ \A i, j \in DOMAIN calls : i # j => calls[i].id # calls[j].id
    /\ \A i \in DOMAIN calls : calls[i].dir = UploadFolder \o <<"mineru_files", calls[i].id>>
    /\ \A i, j \in DOMAIN calls : i # j => calls[i].dir # calls[j].dir


-----------------------------------------------------------------------------
(* Properties of the conversion runs *)

C10_NoCredentialsIdentity ==
    (/\ cfg.entry = "flat"
     /\ rpc \in {"backgrounds", "done"}
     /\ (cfg.ak \in {"unset", "empty"} \/ cfg.sk \in {"unset", "empty"}))
    => /\ clean_bg_paths = image_paths
       /\ Len(clean_bg_paths) = cfg.pages
       /\ \A i \in DOMAIN clean_bg_paths : clean_bg_paths[i].kind = "original"
       /\ inpaint_calls = 0

\* C10 witness: backgrounds of a three-page run were made with the access
\* key set and the secret key missing
C10_Witness ==
    /\ cfg.entry = "flat"
    /\ rpc = "backgrounds"
    /\ cfg.ak = "set"
    /\ cfg.sk = "unset"
    /\ Len(image_paths) = 3

\* the configuration of a run apart from the inpainting credentials is
\* valid: the input file is there and can be rasterized, and the extraction
\* token is set
OtherwiseValid ==
    /\ cfg.entry \in {"flat", "recur"}
    /\ cfg.input_exists
    /\ cfg.raster_ok
    /\ Truthy(cfg.token)

\* the access key or the secret key of the inpainting service is missing
CredentialsAbsent == ~Truthy(cfg.ak) \/ ~Truthy(cfg.sk)

\* C11: in either converter, a run whose configuration is valid apart from
\* missing inpainting credentials never ends with an error about those
\* credentials, and when it has assembled its document every slide has the
\* page's original image as its background.
C11_CredentialsOptional ==
    (OtherwiseValid /\ CredentialsAbsent) =>
        /\ runErr # "ValueError: VOLCENGINE credentials not configured"
        /\ rpc = "done" =>
              /\ document.made
              /\ \A i \in DOMAIN document.slides :
                    IF cfg.entry = "flat"
                    THEN document.slides[i] = image_paths[i]
                    ELSE /\ document.slides[i].image = image_paths[i]
                         /\ ~document.slides[i].clean

\* C11 restricted to the flat converter
C11_FlatCredentialsOptional == cfg.entry = "flat" => C11_CredentialsOptional


-----------------------------------------------------------------------------
(* Properties of the flat converter together with the ingestion client *)

\* the errors of the ingestion client that the claim calls fatal
FatalIngestionErrors ==
    {"PathTraversalError", "MissingArtifactError", "ConfigurationError",
     "MalformedResponseError", "ServiceError"}

\* C14: once archive ingestion has raised a fatal error, the run has made no
\* background synthesis and no document, and as soon as the call is over the
\* run has failed with that very error; at any time a document exists
\* exactly when the run is done, a failure is recorded exactly when the run
\* has failed, never both, and a run that is neither done nor failed has
\* a next step to take (inside the ingestion call: the call is under way
\* or its outcome can be taken up).
C14_IngestionErrorsFatal ==
    /\ (cfg.entry = "flat" /\ pc = "failed" /\ err.kind \in FatalIngestionErrors) =>
          /\ ret = NoReturn
          /\ ~synthesis.called
          /\ clean_bg_paths = <<>>
          /\ ~document.made
          /\ rpc \in {"parsing", "failed"}
          /\ rpc = "failed" => runErr = err.kind
    /\ document.made <=> rpc = "done"
    /\ runErr # "none" <=> rpc \in {"failed", "exit1"}
    /\ ~(document.made /\ runErr # "none")
    /\ rpc \notin {"done", "failed", "exit1"} =>
          IF rpc = "parsing"
          THEN \/ pc \in {"start", "posting", "received", "saved", "checked",
                          "unpacked", "flattened", "backfilled"}
               \/ ENABLED FlatParseReturn
          ELSE ENABLED (\/ FlatValidateInput
                        \/ FlatRasterize
                        \/ FlatParseCall
                        \/ FlatBackgrounds
                        \/ FlatCreatePptx)

\* C14 witness: a run has failed because the archive had an unsafe entry
C14_Witness ==
    /\ cfg.entry = "flat"
    /\ rpc = "failed"
    /\ pc = "failed"
    /\ err.kind = "PathTraversalError"
    /\ runErr = "PathTraversalError"


\* the directory handed to background synthesis and to document assembly
\* is the place the ingestion client returned
HandsOverReturnedDir ==
    (cfg.entry = "flat" /\ pc = "returned" /\ rpc \in {"parsed", "backgrounds", "done"}) =>
        /\ ret[2] = ExtractDir(ret[1])
        /\ IsDir(fs, ret[2])
        /\ Location(mineru_result_dir) = ret[2]
        /\ synthesis.called => Location(synthesis.dir) = ret[2]
        /\ document.made => Location(document.dir) = ret[2]

\* C19: in a run of the flat converter with the self-hosted service, for
\* every setting of the upload folder (unset, absolute, relative,
\* "~"-prefixed), the directory main works out from the identifier and
\* hands to background synthesis and document assembly is the directory
\* the ingestion client wrote to and returned.
C19_ResultDirAgreement == HandsOverReturnedDir

\* C19 for the settings of the upload folder that do not start with "~"
C19_AgreementWithoutTilde ==
    (cfg.entry = "flat" /\ cfg.upload_folder # <<"~", "uploads">>) => HandsOverReturnedDir


\* the run has ended in its check of the configuration: a required
\* credential is missing
ConfigurationCheckFailed ==
    runErr \in {"ValueError: MINERU_TOKEN not configured",
                "ValueError: VOLCENGINE credentials not configured"}

RasterizationFailed == runErr = "RasterizationError"

\* C13: in either converter, a run that failed in its configuration check
\* or in rasterization has ended there, and has made no extraction request,
\* has handed no page to the worker pool, has made no background synthesis
\* and no call to the inpainting collaborator, and has assembled no document.
C13_AbortBeforePageWork ==
    (ConfigurationCheckFailed \/ RasterizationFailed) =>
        /\ rpc = "failed"
        /\ ~ENABLED NextRuns
        /\ requests = 0
        /\ submitted = <<>> /\ running = {} /\ results = <<>> /\ editable_images = <<>>
        /\ ~synthesis.called
        /\ inpaint_calls = 0
        /\ clean_bg_paths = <<>>
        /\ ~document.made
        /\ RasterizationFailed => image_paths = <<>>

\* C13 witness: a run of the flat converter against the cloud service has
\* ended for want of the token
C13_Witness ==
    /\ cfg.entry = "flat"
    /\ rpc = "failed"
    /\ runErr = "ValueError: MINERU_TOKEN not configured"
    /\ ~IsSelfHostedMineru(cfg.api_base)


\* C18: a run of the flat converter that was given an extraction result
\* directory makes no extraction request; if the directory is missing, is
\* not a directory or has no *_content_list.json, the run fails at step 2,
\* before background synthesis; otherwise, with or without layout.json, the
\* run does not fail at step 2 and the given directory is the one handed to
\* background synthesis and to document assembly.
C18_ReuseResultsDirectory ==
    (cfg.entry = "flat" /\ cfg.results_dir # "none") =>
        /\ requests = 0
        /\ cfg.results_dir \in {"missing", "file", "nolist"} =>
              /\ rpc \in {"start", "exit1", "validated", "rasterized", "failed"}
              /\ mineru_result_dir = <<>>
              /\ ~synthesis.called
              /\ ~document.made
              /\ rpc = "rasterized" => ENABLED FlatReuseResults
        /\ cfg.results_dir \in {"nolayout", "complete"} =>
              /\ runErr \in {"none", "InputNotFound", "RasterizationError"}
              /\ rpc \in {"parsed", "backgrounds", "done"} =>
                    mineru_result_dir = GivenResultsDir
              /\ synthesis.called => synthesis.dir = GivenResultsDir
              /\ document.made => document.dir = GivenResultsDir

\* C18 witness: a run given a directory without layout.json has assembled
\* its document
C18_Witness ==
    /\ cfg.entry = "flat"
    /\ cfg.results_dir = "nolayout"
    /\ rpc = "done"
    /\ document.dir = GivenResultsDir


-----------------------------------------------------------------------------
(* Properties of the template style extractor *)

\* the string is exactly six hex digits
SixHexDigits(s) == Len(s) = 6 /\ \A i \in 1..6 : s[i] \in {"0", "A", "f"}

\* the byte written by the two hex digits of s at i and i + 1
ByteAt(s, i) ==
    16 * (IF s[i] = "0" THEN 0 ELSE IF s[i] = "A" THEN 10 ELSE 15)
       + (IF s[i + 1] = "0" THEN 0 ELSE IF s[i + 1] = "A" THEN 10 ELSE 15)

\* C17: _parse_color never raises on a string (or None); for a string that
\* is not exactly six hex digits it returns no color; for a string of
\* exactly six hex digits it returns the triple of its three bytes, each
\* in 0..255.
C17_ParseColorTotal ==
    spc = "color parsed" =>
        /\ color_rgb.kind # "raise"
        /\ IF SixHexDigits(color_str)
           THEN /\ color_rgb = Rgb(ByteAt(color_str, 1), ByteAt(color_str, 3), ByteAt(color_str, 5))
                /\ {color_rgb.r, color_rgb.g, color_rgb.b} \subseteq 0..255
           ELSE color_rgb.kind = "none"

\* the parts of C17 that hold: no call raises, and six hex digits give
\* their three bytes
C17_SixHexDigitsParsed ==
    spc = "color parsed" =>
        /\ color_rgb.kind # "raise"
        /\ SixHexDigits(color_str) =>
              /\ color_rgb = Rgb(ByteAt(color_str, 1), ByteAt(color_str, 3), ByteAt(color_str, 5))
              /\ {color_rgb.r, color_rgb.g, color_rgb.b} \subseteq 0..255

-----------------------------------------------------------------------------
(* Properties of extract_styles *)

\* the template cannot be used: it is absent, the inventory module cannot be
\* imported, taking the inventory fails, or handling a shape raises
TemplateUnusable ==
    \/ ~template.stat_ok
    \/ ~template.exists
    \/ ~template.import_ok
    \/ ~template.inventory_ok
    \/ \E i \in 1..Len(template.shapes) :
          /\ template.shapes[i].paragraphs # <<>>
          /\ template.shapes[i].paragraphs[1].color = NonStr

BrandDefaultStyle ==
    [source_template |-> "HPE defaults",
     title_font |-> [name |-> "HPE Graphik Semibold", fallback_name |-> "Arial",
                     bold |-> TRUE, italic |-> FALSE, color_rgb |-> NoColor],
     body_font |-> [name |-> "HPE Graphik", fallback_name |-> "Arial",
                    bold |-> FALSE, italic |-> FALSE, color_rgb |-> NoColor]]

\* C15: extract_styles never raises: a call ends by returning, and when the
\* template file is absent or cannot be examined, the inventory module
\* cannot be imported, or parsing fails in any way, what it returns is the
\* brand default style
C15_ExtractStylesNeverRaises ==
    /\ spc # "raised"
    /\ spc \in {"start", "scanning"} => ENABLED NextStyle
    /\ spc = "returned" /\ TemplateUnusable => style_config = BrandDefaultStyle

\* what does hold: every call that returns after a failure returns the brand
\* default style, and a call raises only when the template cannot be examined
C15_DefaultsWhenReturning ==
    /\ spc = "raised" => ~template.stat_ok
    /\ spc \in {"start", "scanning"} => ENABLED NextStyle
    /\ spc = "returned" /\ TemplateUnusable => style_config = BrandDefaultStyle

\* the shape has non-empty text with a font family and its placeholder type
\* is one of the given ones
Matches(shape, types) ==
    /\ shape.paragraphs # <<>>
    /\ shape.paragraphs[1].font_name # ""
    /\ shape.placeholder_type \in types

\* the positions of the matching shapes, in inventory order
MatchesOf(types) ==
    {i \in 1..Len(template.shapes) : Matches(template.shapes[i], types)}

FirstOf(S) == CHOOSE i \in S : \A j \in S : i <= j

\* the font a category gets: from the first paragraph of its first matching
\* shape, or the brand font when no shape matches
CategoryFont(types, default_name, default_bold) ==
    IF MatchesOf(types) = {}
    THEN [name |-> default_name, fallback_name |-> "Arial", bold |-> default_bold,
          italic |-> FALSE, color_rgb |-> NoColor]
    ELSE LET para == template.shapes[FirstOf(MatchesOf(types))].paragraphs[1]
         IN  [name |-> para.font_name, fallback_name |-> "Arial",
              bold |-> IF para.bold = "none" THEN default_bold ELSE para.bold = "true",
              italic |-> FALSE, color_rgb |-> ParseColor(para.color)]

\* C16: when the template is usable, the first shape in inventory order that
\* has non-empty text with a font family and a placeholder type of TITLE or
\* CENTER_TITLE determines the title font, and the first such shape of type
\* BODY, SUBTITLE or FOOTER determines the body font; later matches in a
\* category change nothing
C16_FirstMatchWins ==
    spc = "returned" /\ ~TemplateUnusable =>
        /\ style_config.title_font =
              CategoryFont({"TITLE", "CENTER_TITLE"}, "HPE Graphik Semibold", TRUE)
        /\ style_config.body_font =
              CategoryFont({"BODY", "SUBTITLE", "FOOTER"}, "HPE Graphik", FALSE)

\* a call has returned the style of a template with two title matches of
\* different fonts
C16_Witness ==
    /\ spc = "returned"
    /\ ~TemplateUnusable
    /\ \E i, j \in MatchesOf({"TITLE", "CENTER_TITLE"}) :
          /\ i < j
          /\ template.shapes[i].paragraphs[1].font_name
                # template.shapes[j].paragraphs[1].font_name
    /\ style_config.title_font.name # "HPE Graphik Semibold"

====
